---- MODULE Spec2Model ----
(***************************************************************************)
(* Model of the photoluminescence acquisition program: the filter-wheel    *)
(* position tracker (flywheel.py), the mirror-slot auto-configuration      *)
(* (utils.py), the orchestrator start-up, modes and shutdown               *)
(* (experiment.py) and the entry point (main.py).                          *)
(*                                                                         *)
(* SpecFW  exercises a FlywheelController through its public methods.      *)
(* Spec    is one run of main(): configuration, opening of the adapters,   *)
(*         auto-configuration, the selected mode and the shutdown.         *)
(***************************************************************************)
EXTENDS Integers, Sequences, FiniteSets, TLC

(* ---------------------------- bounds ----------------------------------- *)
\* largest slot_count explored (flywheel.py:17 reads it from the setup file)
MaxSlots == 3
\* cap on the pulses issued in one behaviour of the controller-level spec
MaxPulses == 6
\* largest argument given to step()
MaxStep == 4
\* power-meter readings are drawn from 0..MaxPower
MaxPower == 1
\* largest sample_count of a steady-state run
MaxSamples == 2
\* cap on the number of cycles of a degradation run
MaxCycles == 5
\* an acquisition takes 0..MaxLatency half-seconds
MaxLatency == 1
\* the largest reference power drawn for the per-cycle processing
MaxRefPower == 2
\* the largest raw intensity drawn, in units of RawUnit
MaxRaw == 3
\* the largest background level drawn
MaxBackground == 2
\* the number of queued items up to which the pre-tuning queue is explored
MaxQueue == 3
\* the largest average_count drawn
MaxAvg == 2
\* the pixels of the spectrometer have the wavelengths 1..MaxWl
MaxWl == 3

VARIABLES
  slot_count,      \* FlywheelController.slot_count
  slot_mapping,    \* FlywheelController.slot_mapping (name -> slot)
  current_slot,    \* FlywheelController.current_slot (software-tracked)
  phys,            \* physical position of the wheel, 1..slot_count
  broken,          \* TRUE: _pulse_once is replaced by a no-op (test double)
  pulses,          \* number of _pulse_once calls made so far
  last,            \* record of the last wheel call: arguments and outcome
  pc,              \* position of the main thread in main()
  experiment_type, \* main.py: config.get("experiment_type", ...)
  user_cfg,        \* PLExperiment.user_cfg
  opened,          \* adapters whose hardware session is open
  hooked,          \* adapters whose shutdown hook has been invoked
  exc,             \* exception propagating in the main thread, or "none"
  measurements,    \* local list of configure_flywheel_with_powermeter
  i,               \* loop index of the running mode (sample / cycle)
  has_bg,          \* the local name `background` is bound
  bg_count,        \* background frames captured in this run
  persisted,       \* spectra written by save_csv_spectrum in this run
  now,             \* degradation: half-seconds elapsed since t0 (saturating)
  power,           \* degradation: the local `power` of the current cycle
  warned,          \* degradation: the summary-plot warning was printed
  raw,             \* intensity acquired for the sample (one pixel)
  inten,           \* the local `inten` being processed
  background,      \* the local `background` (one pixel)
  q_data,          \* pre-tuning: the queue q_data
  stop_event,      \* CCS_Spectrometer._stop_event
  streaming,       \* CCS_Spectrometer.streaming
  cap_pc,          \* position of the capture thread (scan_thread)
  in_pc,           \* position of the input thread (thread_input)
  mask_range,      \* CCS_Spectrometer.mask_range: <<min, max>>
  scans,           \* get_raw_spectrum calls of the current sample capture
  spectra,         \* the list `spectra` of average_spectrum
  wl               \* wavelengths of the captured spectrum

wheelVars == <<slot_count, slot_mapping, current_slot, phys, broken, pulses, last>>
runVars == <<pc, experiment_type, user_cfg, opened, hooked, exc, measurements,
             i, has_bg, bg_count, persisted>>
dgVars == <<now, power, warned>>
acqVars == <<mask_range, scans, spectra, wl>>
procVars == <<raw, inten, background, acqVars>>
ptVars == <<q_data, stop_event, streaming, cap_pc, in_pc>>
vars == <<slot_count, slot_mapping, current_slot, phys, broken, pulses, last,
          pc, experiment_type, user_cfg, opened, hooked, exc, measurements,
          i, has_bg, bg_count, persisted, now, power, warned, raw, inten,
          background, q_data, stop_event, streaming, cap_pc, in_pc,
          mask_range, scans, spectra, wl>>

(* ------------------------- flywheel.py --------------------------------- *)
\* exceptions raised by the controller
InvalidSlotError == "ValueError"
UnreachableSlotError == "RuntimeError"
\* failure of a call into an instrument driver
HardwareError == "HardwareError"

NoCall == [op |-> "none", name |-> "", arg |-> 0, from |-> 0, physFrom |-> 0,
           n |-> 0, status |-> "ok", ret |-> 0]

\* None as a mask bound
NoBound == -1
\* CCS_Spectrometer.__init__: self.mask_range = (None, None)
NoMask == <<NoBound, NoBound>>

NoMapping == [mirror |-> 0, empty |-> 0, beam_splitter |-> 0]

\* variant: the wrap-around to slot 1 is missing
PulseOnce_NoWrap(cur, N, brk) ==
  IF brk THEN cur ELSE cur + 1

\* variant: the wrap-around test is `>=`, so slot_count is skipped
PulseOnce_WrapEarly(cur, N, brk) ==
  IF brk THEN cur
  ELSE IF cur + 1 >= N THEN 1 ELSE cur + 1

\* variant: the wrap-around goes to slot 0
PulseOnce_WrapToZero(cur, N, brk) ==
  IF brk THEN cur
  ELSE IF cur + 1 > N THEN 0 ELSE cur + 1

\* tracked position after one _pulse_once
PulseOnce(cur, N, brk) ==
  IF brk THEN cur
  ELSE IF cur + 1 > N THEN 1 ELSE cur + 1

\* physical position after one trigger of the actuator
PhysPulse(p, N, brk) ==
  IF brk THEN p ELSE (p % N) + 1

\* physical position after k triggers
RECURSIVE PhysAfter(_, _, _, _)
PhysAfter(p, k, N, brk) ==
  IF k = 0 THEN p ELSE PhysAfter(PhysPulse(p, N, brk), k - 1, N, brk)

\* variant: the attempt bound is off by one (attempts <= max_attempts)
RECURSIVE GoLoop_OneMore(_, _, _, _, _)
GoLoop_OneMore(cur, target, attempts, N, brk) ==
  IF cur # target /\ attempts <= N
  THEN GoLoop_OneMore(PulseOnce(cur, N, brk), target, attempts + 1, N, brk)
  ELSE [slot |-> cur, attempts |-> attempts]

\* the while loop of go_to_slot: pulse while the tracked slot differs from
\* the target and fewer than max_attempts pulses were made
RECURSIVE GoLoop(_, _, _, _, _)
GoLoop(cur, target, attempts, N, brk) ==
  IF cur # target /\ attempts < N
  THEN GoLoop(PulseOnce(cur, N, brk), target, attempts + 1, N, brk)
  ELSE [slot |-> cur, attempts |-> attempts]

\* variant: no early return and the loop pulses before testing (do-while)
go_to_slot_PulseFirst(cur, target, N, brk) ==
  IF ~(1 <= target /\ target <= N)
  THEN [status |-> InvalidSlotError, slot |-> cur, n |-> 0, ret |-> 0]
  ELSE LET r == GoLoop(PulseOnce(cur, N, brk), target, 1, N, brk) IN
       IF r.slot # target
       THEN [status |-> UnreachableSlotError, slot |-> r.slot,
             n |-> r.attempts, ret |-> 0]
       ELSE [status |-> "ok", slot |-> r.slot, n |-> r.attempts,
             ret |-> r.slot]

\* variant: the range check accepts slot 0 (0 <= target_slot)
go_to_slot_LowerBound0(cur, target, N, brk) ==
  IF ~(0 <= target /\ target <= N)
  THEN [status |-> InvalidSlotError, slot |-> cur, n |-> 0, ret |-> 0]
  ELSE IF target = cur
  THEN [status |-> "ok", slot |-> cur, n |-> 0, ret |-> cur]
  ELSE LET r == GoLoop(cur, target, 0, N, brk) IN
       IF r.slot # target
       THEN [status |-> UnreachableSlotError, slot |-> r.slot,
             n |-> r.attempts, ret |-> 0]
       ELSE [status |-> "ok", slot |-> r.slot, n |-> r.attempts,
             ret |-> r.slot]

\* go_to_slot: outcome (status, returned value), tracked slot afterwards
\* and number of pulses issued
go_to_slot(cur, target, N, brk) ==
  IF ~(1 <= target /\ target <= N)
  THEN [status |-> InvalidSlotError, slot |-> cur, n |-> 0, ret |-> 0]
  ELSE IF target = cur
  THEN [status |-> "ok", slot |-> cur, n |-> 0, ret |-> cur]
  ELSE LET r == GoLoop(cur, target, 0, N, brk) IN
       IF r.slot # target
       THEN [status |-> UnreachableSlotError, slot |-> r.slot,
             n |-> r.attempts, ret |-> 0]
       ELSE [status |-> "ok", slot |-> r.slot, n |-> r.attempts,
             ret |-> r.slot]

\* the for loop of step: n % slot_count pulses
RECURSIVE StepLoop(_, _, _, _)
StepLoop(cur, k, N, brk) ==
  IF k = 0 THEN cur ELSE StepLoop(PulseOnce(cur, N, brk), k - 1, N, brk)

step(cur, n, N, brk) ==
  [status |-> "ok", slot |-> StepLoop(cur, n % N, N, brk), n |-> n % N,
   ret |-> 0]

\* variant: the range check of reset_slot is missing
reset_slot_Unchecked(cur, known_slot, N) ==
  [status |-> "ok", slot |-> known_slot, n |-> 0, ret |-> 0]

\* reset_slot: validate, then overwrite the tracked slot
reset_slot(cur, known_slot, N) ==
  IF ~(1 <= known_slot /\ known_slot <= N)
  THEN [status |-> InvalidSlotError, slot |-> cur, n |-> 0, ret |-> 0]
  ELSE [status |-> "ok", slot |-> known_slot, n |-> 0, ret |-> 0]

\* effect of a wheel call with outcome r on the controller and the wheel;
\* moved is the number of triggers that turned the wheel
WheelCall(op, name, arg, r, moved) ==
  /\ current_slot' = r.slot
  /\ phys' = PhysAfter(phys, moved, slot_count, broken)
  /\ pulses' = pulses + r.n
  /\ last' = [op |-> op, name |-> name, arg |-> arg, from |-> current_slot,
              physFrom |-> phys, n |-> r.n, status |-> r.status,
              ret |-> r.ret]

(* ------------- controller-level specification (SpecFW) ----------------- *)
NoConfig == [auto_configure_flywheel |-> FALSE, background_correction |-> FALSE,
             background_mode |-> "each", sample_count |-> 1,
             repeated_bg |-> TRUE, normalization |-> "none",
             flywheel_mode |-> "skip", degradation_duration_s |-> 0,
             sampling_interval_s |-> 0, enable_averaging |-> FALSE,
             average_count |-> 1, mask_range_nm |-> <<>>]

\* FlywheelController.__init__: tracked slot 1, physical position unknown
InitFW ==
  /\ slot_count \in 1..MaxSlots
  /\ slot_mapping = NoMapping
  /\ current_slot = 1
  /\ phys \in 1..slot_count
  /\ broken \in BOOLEAN
  /\ pulses = 0
  /\ last = NoCall
  /\ pc = "controller"
  /\ experiment_type = "none"
  /\ user_cfg = NoConfig
  /\ opened = {"fw"}
  /\ hooked = {}
  /\ exc = "none"
  /\ measurements = <<>>
  /\ i = 0
  /\ has_bg = FALSE
  /\ bg_count = 0
  /\ persisted = 0
  /\ now = 0
  /\ power = 0
  /\ warned = FALSE
  /\ raw = 0
  /\ inten = 0
  /\ background = 0
  /\ q_data = <<>>
  /\ stop_event = FALSE
  /\ streaming = FALSE
  /\ cap_pc = "none"
  /\ in_pc = "none"
  /\ mask_range = NoMask
  /\ scans = 0
  /\ spectra = <<>>
  /\ wl = {}

FW_GoToSlot ==
  /\ pc = "controller"
  /\ pulses + slot_count <= MaxPulses
  /\ \E t \in 0..(slot_count + 1) :
       LET r == go_to_slot(current_slot, t, slot_count, broken) IN
       WheelCall("go_to_slot", "", t, r, r.n)
  /\ UNCHANGED <<slot_count, slot_mapping, broken>>
  /\ UNCHANGED runVars
  /\ UNCHANGED <<dgVars, procVars, ptVars>>

FW_Step ==
  /\ pc = "controller"
  /\ pulses + slot_count <= MaxPulses
  /\ \E n \in 0..MaxStep :
       LET r == step(current_slot, n, slot_count, broken) IN
       WheelCall("step", "", n, r, r.n)
  /\ UNCHANGED <<slot_count, slot_mapping, broken>>
  /\ UNCHANGED runVars
  /\ UNCHANGED <<dgVars, procVars, ptVars>>

FW_ResetSlot ==
  /\ pc = "controller"
  /\ \E k \in 0..(slot_count + 1) :
       LET r == reset_slot(current_slot, k, slot_count) IN
       WheelCall("reset_slot", "", k, r, 0)
  /\ UNCHANGED <<slot_count, slot_mapping, broken>>
  /\ UNCHANGED runVars
  /\ UNCHANGED <<dgVars, procVars, ptVars>>

NextFW == FW_GoToSlot \/ FW_Step \/ FW_ResetSlot

SpecFW == InitFW /\ [][NextFW]_vars

(* ------------------- one run of main() (Spec) -------------------------- *)
ExperimentTypes == {"steady_state", "degradation", "pre_tuning"}
SlotNames == {"mirror", "empty", "beam_splitter"}
Adapters == {"spec", "pm", "fw"}

\* durations and sampling intervals explored, in half-seconds: 1 s, 2 s and
\* 5 s (long enough for a second cycle with wheel motion); 0.5 s and 1 s
Durations == {2, 4, 10}
Intervals == {1, 2}

\* the user configurations explored for an experiment type: the keys the
\* selected mode reads vary, the others keep one value
UserConfigs(type) ==
  IF type = "steady_state"
  THEN [auto_configure_flywheel : BOOLEAN, background_correction : BOOLEAN,
        background_mode : {"each", "once"}, sample_count : 1..MaxSamples,
        repeated_bg : {TRUE}, normalization : {"none"},
        flywheel_mode : {"skip"}, degradation_duration_s : {0},
        sampling_interval_s : {0}, enable_averaging : {FALSE},
        average_count : {1}, mask_range_nm : {<<>>}]
  ELSE IF type = "degradation"
  THEN [auto_configure_flywheel : BOOLEAN, background_correction : BOOLEAN,
        background_mode : {"each"}, sample_count : {1},
        repeated_bg : BOOLEAN,
        normalization : {"mirror", "beam_splitter", "none"},
        flywheel_mode : {"skip", "auto"},
        degradation_duration_s : Durations,
        sampling_interval_s : Intervals, enable_averaging : {FALSE},
        average_count : {1}, mask_range_nm : {<<>>}]
  ELSE [auto_configure_flywheel : BOOLEAN, background_correction : {FALSE},
        background_mode : {"each"}, sample_count : {1},
        repeated_bg : {TRUE}, normalization : {"none"},
        flywheel_mode : {"skip"}, degradation_duration_s : {0},
        sampling_interval_s : {0}, enable_averaging : {FALSE},
        average_count : {1}, mask_range_nm : {<<>>}]

\* main.py reads experiment_type; nothing is constructed yet
Init ==
  /\ slot_count = 0
  /\ slot_mapping = NoMapping
  /\ current_slot = 0
  /\ phys = 0
  /\ broken = FALSE
  /\ pulses = 0
  /\ last = NoCall
  /\ pc = "main"
  /\ experiment_type \in ExperimentTypes \cup {"other"}
  /\ user_cfg = NoConfig
  /\ opened = {}
  /\ hooked = {}
  /\ exc = "none"
  /\ measurements = <<>>
  /\ i = 0
  /\ has_bg = FALSE
  /\ bg_count = 0
  /\ persisted = 0
  /\ now = 0
  /\ power = 0
  /\ warned = FALSE
  /\ raw = 0
  /\ inten = 0
  /\ background = 0
  /\ q_data = <<>>
  /\ stop_event = FALSE
  /\ streaming = FALSE
  /\ cap_pc = "none"
  /\ in_pc = "none"
  /\ mask_range = NoMask
  /\ scans = 0
  /\ spectra = <<>>
  /\ wl = {}

\* an exception raised before the try block of main: the process ends
Crash(e) == exc' = e /\ pc' = "ended"
\* an exception raised inside the try block of main: the finally clause runs
Fail(e) == exc' = e /\ pc' = "sd_spec"

\* outcomes of go_to_slot on the real wheel: the call as coded, or a driver
\* failure in its k-th pulse (tracked slot advanced k-1 times, the wheel
\* k-1 or k times)
GoOutcomes(cur, t, N) ==
  LET ok == go_to_slot(cur, t, N, FALSE) IN
  {[r |-> ok, moved |-> ok.n]} \cup
  UNION {{[r |-> [status |-> HardwareError,
                   slot |-> StepLoop(cur, k - 1, N, FALSE), n |-> k,
                   ret |-> 0],
            moved |-> m] : m \in {k - 1, k}} : k \in 1..ok.n}

\* self.fw.go_to_slot(self.slots[name]) with outcome o
GoNamed(name, o) ==
  WheelCall("go_to_slot", name, slot_mapping[name], o.r, o.moved)

NamedOutcomes(name) == GoOutcomes(current_slot, slot_mapping[name], slot_count)

\* PLExperiment.__init__ lines 26-33: load the user configuration, create
\* the directories. The keys that only the modes read are drawn when
\* __init__ finishes (Exp_ReadSettings); they cannot be observed earlier.
Exp_LoadConfig ==
  /\ pc = "main"
  /\ \E auto \in BOOLEAN :
       user_cfg' = [NoConfig EXCEPT !.auto_configure_flywheel = auto]
  /\ pc' = "open_spec"
  /\ UNCHANGED <<experiment_type, opened, hooked, exc, measurements, i,
                 has_bg, bg_count, persisted>>
  /\ UNCHANGED wheelVars
  /\ UNCHANGED <<dgVars, procVars, ptVars>>

\* self.spec = CCS_Spectrometer(setup_config)
Exp_OpenSpectrometer ==
  /\ pc = "open_spec"
  /\ \/ /\ opened' = opened \cup {"spec"}
        /\ pc' = "open_pm"
        /\ exc' = exc
     \/ /\ Crash("RuntimeError")
        /\ opened' = opened
  /\ UNCHANGED <<experiment_type, user_cfg, hooked, measurements, i, has_bg,
                 bg_count, persisted>>
  /\ UNCHANGED wheelVars
  /\ UNCHANGED <<dgVars, procVars, ptVars>>

\* self.pm = PM100D(setup_config)
Exp_OpenPowerMeter ==
  /\ pc = "open_pm"
  /\ \/ /\ opened' = opened \cup {"pm"}
        /\ pc' = "open_fw"
        /\ exc' = exc
     \/ /\ Crash("RuntimeError")
        /\ opened' = opened
  /\ UNCHANGED <<experiment_type, user_cfg, hooked, measurements, i, has_bg,
                 bg_count, persisted>>
  /\ UNCHANGED wheelVars
  /\ UNCHANGED <<dgVars, procVars, ptVars>>

\* self.fw = FlywheelController(setup_config)
Exp_OpenFlywheel ==
  /\ pc = "open_fw"
  /\ \/ /\ slot_count' \in 1..MaxSlots
        /\ slot_mapping' = slot_mapping
        /\ current_slot' = 1
        /\ phys' \in 1..slot_count'
        /\ opened' = opened \cup {"fw"}
        /\ pc' = "init_spec"
        /\ exc' = exc
     \/ /\ Crash(HardwareError)
        /\ UNCHANGED <<slot_count, slot_mapping, current_slot, phys, opened>>
  /\ UNCHANGED <<broken, pulses, last>>
  /\ UNCHANGED <<experiment_type, user_cfg, hooked, measurements, i, has_bg,
                 bg_count, persisted>>
  /\ UNCHANGED <<dgVars, procVars, ptVars>>

\* set_mask_range, set_integration_time, then the auto-configuration switch
Exp_ConfigureSpectrometer ==
  /\ pc = "init_spec"
  /\ \/ /\ pc' = IF user_cfg.auto_configure_flywheel THEN "ac_scan"
                 ELSE "init_rest"
        /\ exc' = exc
     \/ Crash(HardwareError)
  /\ UNCHANGED <<experiment_type, user_cfg, opened, hooked, measurements, i,
                 has_bg, bg_count, persisted>>
  /\ UNCHANGED wheelVars
  /\ UNCHANGED <<dgVars, procVars, ptVars>>

Pulse1 == [status |-> "ok", slot |-> PulseOnce(current_slot, slot_count, broken),
           n |-> 1, ret |-> 0]
PulseFailed == [status |-> HardwareError, slot |-> current_slot, n |-> 1,
                ret |-> 0]

\* one iteration of the scan loop of configure_flywheel_with_powermeter:
\* read the tracked slot and the power, record them, pulse once
\* (the field at is the physical position of the reading; not in the code)
AC_Scan ==
  /\ pc = "ac_scan"
  /\ Len(measurements) < slot_count
  /\ \/ \E reading \in 0..MaxPower :
          /\ measurements' = Append(measurements,
                 [slot |-> current_slot, power |-> reading, at |-> phys])
          /\ \/ /\ WheelCall("_pulse_once", "", 0, Pulse1, 1)
                /\ UNCHANGED <<pc, exc>>
             \/ /\ \E m \in {0, 1} : WheelCall("_pulse_once", "", 0, PulseFailed, m)
                /\ Crash(HardwareError)
     \/ /\ Crash(HardwareError)
        /\ UNCHANGED <<measurements, current_slot, phys, pulses, last>>
  /\ UNCHANGED <<slot_count, slot_mapping, broken>>
  /\ UNCHANGED <<experiment_type, user_cfg, opened, hooked, i, has_bg,
                 bg_count, persisted>>
  /\ UNCHANGED <<dgVars, procVars, ptVars>>

Powers(ms) == {ms[k].power : k \in 1..Len(ms)}
MaxOf(S) == CHOOSE x \in S : \A y \in S : y <= x

\* variant: the first measurement is taken instead of the maximum
BestIndex_First(ms) == 1

\* index selected by max(measurements, key=lambda x: x[1]): the first
\* measurement of maximal power
BestIndex(ms) ==
  CHOOSE k \in 1..Len(ms) :
    /\ ms[k].power = MaxOf(Powers(ms))
    /\ \A j \in 1..(k - 1) : ms[j].power < ms[k].power

\* best_slot = max(...); fw.go_to_slot(best_slot)
AC_Select ==
  /\ pc = "ac_scan"
  /\ Len(measurements) = slot_count
  /\ LET best_slot == measurements[BestIndex(measurements)].slot IN
     \E o \in GoOutcomes(current_slot, best_slot, slot_count) :
       /\ WheelCall("go_to_slot", "", best_slot, o.r, o.moved)
       /\ IF o.r.status = "ok" THEN pc' = "ac_reset" /\ exc' = exc
          ELSE Crash(o.r.status)
  /\ UNCHANGED <<slot_count, slot_mapping, broken>>
  /\ UNCHANGED <<experiment_type, user_cfg, opened, hooked, measurements, i,
                 has_bg, bg_count, persisted>>
  /\ UNCHANGED <<dgVars, procVars, ptVars>>

\* fw.reset_slot(1)
AC_Reset ==
  /\ pc = "ac_reset"
  /\ LET r == reset_slot(current_slot, 1, slot_count) IN
     /\ WheelCall("reset_slot", "", 1, r, 0)
     /\ IF r.status = "ok" THEN pc' = "ac_done" /\ exc' = exc
        ELSE Crash(r.status)
  /\ UNCHANGED <<slot_count, slot_mapping, broken>>
  /\ UNCHANGED <<experiment_type, user_cfg, opened, hooked, measurements, i,
                 has_bg, bg_count, persisted>>
  /\ UNCHANGED <<dgVars, procVars, ptVars>>

\* configure_flywheel_with_powermeter returns
AC_Return ==
  /\ pc = "ac_done"
  /\ measurements' = <<>>
  /\ pc' = "init_rest"
  /\ UNCHANGED <<experiment_type, user_cfg, opened, hooked, exc, i, has_bg,
                 bg_count, persisted>>
  /\ UNCHANGED wheelVars
  /\ UNCHANGED <<dgVars, procVars, ptVars>>

\* the slot names a run looks up in self.slots
UsedNames(type, cfg) ==
  IF type = "steady_state"
  THEN {"empty"} \cup (IF cfg.background_correction THEN {"mirror"} ELSE {})
  ELSE IF type = "degradation"
  THEN (IF cfg.background_correction /\ ~cfg.repeated_bg
        THEN {"mirror"} ELSE {})
       \cup
       (IF cfg.flywheel_mode = "skip" THEN {}
        ELSE IF cfg.normalization = "mirror" THEN {"mirror", "empty"}
        ELSE IF cfg.normalization = "beam_splitter" THEN {"beam_splitter"}
        ELSE {"empty"})
  ELSE IF type = "pre_tuning" THEN {"empty"}
  ELSE {}

\* the slot mappings explored: every slot for a name the run looks up,
\* slot 1 for the others
Mappings(used, N) ==
  {m \in [SlotNames -> 1..N] : \A name \in SlotNames \ used : m[name] = 1}

\* __init__ lines 46-49: self.slots = fw.slot_mapping and the settings of
\* the modes; from here on the configuration the selected mode reads is
\* fixed
Exp_ReadSettings ==
  /\ pc = "init_rest"
  /\ \E cfg \in UserConfigs(experiment_type) :
       /\ cfg.auto_configure_flywheel = user_cfg.auto_configure_flywheel
       /\ user_cfg' = cfg
       /\ slot_mapping' \in Mappings(UsedNames(experiment_type, cfg), slot_count)
  /\ pc' = "dispatch"
  /\ UNCHANGED <<slot_count, current_slot, phys, broken, pulses, last>>
  /\ UNCHANGED <<experiment_type, opened, hooked, exc, measurements, i,
                 has_bg, bg_count, persisted>>
  /\ UNCHANGED <<dgVars, procVars, ptVars>>

\* the if/elif chain of main, inside the try block
Main_Dispatch ==
  /\ pc = "dispatch"
  /\ IF experiment_type = "steady_state" THEN pc' = "ss_start" /\ exc' = exc
     ELSE IF experiment_type = "degradation" THEN pc' = "dg_start" /\ exc' = exc
     ELSE IF experiment_type = "pre_tuning" THEN pc' = "pt_start" /\ exc' = exc
     ELSE Fail("ValueError")
  /\ UNCHANGED <<experiment_type, user_cfg, opened, hooked, measurements, i,
                 has_bg, bg_count, persisted>>
  /\ UNCHANGED wheelVars
  /\ UNCHANGED <<dgVars, procVars, ptVars>>


(* ----------------------- run_steady_state ------------------------------ *)
\* go to the mirror slot, settle, acquire the background stack and average:
\* binds `background`; continues at nextpc
CaptureBackground(nextpc) ==
  \E o \in NamedOutcomes("mirror"), acquired \in BOOLEAN :
    /\ GoNamed("mirror", o)
    /\ IF o.r.status # "ok"
       THEN Fail(o.r.status) /\ UNCHANGED <<has_bg, bg_count>>
       ELSE IF ~acquired
       THEN Fail(HardwareError) /\ UNCHANGED <<has_bg, bg_count>>
       ELSE /\ has_bg' = TRUE
            /\ bg_count' = bg_count + 1
            /\ pc' = nextpc
            /\ exc' = exc

\* lines 63-68: the single background of background_mode "once"
SS_BgOnce ==
  /\ pc = "ss_start"
  /\ i' = 1
  /\ IF user_cfg.background_correction /\ user_cfg.background_mode = "once"
     THEN CaptureBackground("ss_confirm")
     ELSE /\ pc' = "ss_confirm"
          /\ UNCHANGED <<exc, has_bg, bg_count, current_slot, phys, pulses, last>>
  /\ UNCHANGED <<slot_count, slot_mapping, broken>>
  /\ UNCHANGED <<experiment_type, user_cfg, opened, hooked, measurements,
                 persisted>>
  /\ UNCHANGED <<dgVars, procVars, ptVars>>

\* line 71: input("Insert Sample #i and press Enter...")
SS_Confirm ==
  /\ pc = "ss_confirm"
  /\ pc' = "ss_bg_each"
  /\ UNCHANGED <<experiment_type, user_cfg, opened, hooked, exc, measurements,
                 i, has_bg, bg_count, persisted>>
  /\ UNCHANGED wheelVars
  /\ UNCHANGED <<dgVars, procVars, ptVars>>

\* variant: the background is recaptured for every sample whatever the mode
SS_BgEach_Always ==
  /\ pc = "ss_bg_each"
  /\ IF user_cfg.background_correction
     THEN CaptureBackground("ss_move_empty")
     ELSE /\ pc' = "ss_move_empty"
          /\ UNCHANGED <<exc, has_bg, bg_count, current_slot, phys, pulses, last>>
  /\ UNCHANGED <<slot_count, slot_mapping, broken>>
  /\ UNCHANGED <<experiment_type, user_cfg, opened, hooked, measurements, i,
                 persisted>>
  /\ UNCHANGED <<dgVars, procVars, ptVars>>

\* lines 73-78: the per-sample background of background_mode "each"
SS_BgEach ==
  /\ pc = "ss_bg_each"
  /\ IF user_cfg.background_correction /\ user_cfg.background_mode = "each"
     THEN CaptureBackground("ss_move_empty")
     ELSE /\ pc' = "ss_move_empty"
          /\ UNCHANGED <<exc, has_bg, bg_count, current_slot, phys, pulses, last>>
  /\ UNCHANGED <<slot_count, slot_mapping, broken>>
  /\ UNCHANGED <<experiment_type, user_cfg, opened, hooked, measurements, i,
                 persisted>>
  /\ UNCHANGED <<dgVars, procVars, ptVars>>

\* lines 80-81: self.fw.go_to_slot(self.slots["empty"])
SS_MoveEmpty ==
  /\ pc = "ss_move_empty"
  /\ \E o \in NamedOutcomes("empty") :
       /\ GoNamed("empty", o)
       /\ IF o.r.status = "ok" THEN pc' = "ss_capture" /\ exc' = exc
          ELSE Fail(o.r.status)
  /\ UNCHANGED <<slot_count, slot_mapping, broken>>
  /\ UNCHANGED <<experiment_type, user_cfg, opened, hooked, measurements, i,
                 has_bg, bg_count, persisted>>
  /\ UNCHANGED <<dgVars, procVars, ptVars>>

\* lines 83-87: acquire the sample, subtract `background` and clip
SS_Capture ==
  /\ pc = "ss_capture"
  /\ \E acquired \in BOOLEAN :
       IF ~acquired THEN Fail(HardwareError)
       ELSE IF user_cfg.background_correction /\ ~has_bg THEN Fail("NameError")
       ELSE pc' = "ss_persist" /\ exc' = exc
  /\ UNCHANGED <<experiment_type, user_cfg, opened, hooked, measurements, i,
                 has_bg, bg_count, persisted>>
  /\ UNCHANGED wheelVars
  /\ UNCHANGED <<dgVars, procVars, ptVars>>

\* variant: the loop runs one iteration more than sample_count
SS_Persist_OneMore ==
  /\ pc = "ss_persist"
  /\ persisted' = persisted + 1
  /\ IF i <= user_cfg.sample_count
     THEN i' = i + 1 /\ pc' = "ss_confirm"
     ELSE i' = i /\ pc' = "ss_overlay"
  /\ UNCHANGED <<experiment_type, user_cfg, opened, hooked, exc, measurements,
                 has_bg, bg_count>>
  /\ UNCHANGED wheelVars
  /\ UNCHANGED <<dgVars, procVars, ptVars>>

\* lines 89-114: save the spectrum and its plots; next iteration
SS_Persist ==
  /\ pc = "ss_persist"
  /\ persisted' = persisted + 1
  /\ IF i < user_cfg.sample_count
     THEN i' = i + 1 /\ pc' = "ss_confirm"
     ELSE i' = i /\ pc' = "ss_overlay"
  /\ UNCHANGED <<experiment_type, user_cfg, opened, hooked, exc, measurements,
                 has_bg, bg_count>>
  /\ UNCHANGED wheelVars
  /\ UNCHANGED <<dgVars, procVars, ptVars>>

\* line 116: plot_steady_state_overlay; the mode returns
SS_Overlay ==
  /\ pc = "ss_overlay"
  /\ pc' = "sd_spec"
  /\ UNCHANGED <<experiment_type, user_cfg, opened, hooked, exc, measurements,
                 i, has_bg, bg_count, persisted>>
  /\ UNCHANGED wheelVars
  /\ UNCHANGED <<dgVars, procVars, ptVars>>

(* --------------------- run_degradation_study --------------------------- *)
\* Time is counted in half-seconds elapsed since t0 (line 128) and saturates
\* at the configured duration, the only value it is compared with.
\* time.sleep(0.5): the settle delay
Settle == 1
\* _pulse_once sleeps 1.2 s: at least two half-seconds per pulse
PulseTicks == 2

Min(a, b) == IF a <= b THEN a ELSE b

\* the clock after d more half-seconds
Later(d) == Min(now + d, user_cfg.degradation_duration_s)

\* lines 123-135: read the keys, take t0, and capture the single background
\* when repeated_bg is off
DG_Start ==
  /\ pc = "dg_start"
  /\ i' = 0
  /\ IF user_cfg.background_correction /\ ~user_cfg.repeated_bg
     THEN \E o \in NamedOutcomes("mirror"), acquired \in BOOLEAN,
             lat \in 0..MaxLatency :
            /\ GoNamed("mirror", o)
            /\ IF o.r.status # "ok"
               THEN Fail(o.r.status) /\ UNCHANGED <<has_bg, bg_count, now>>
               ELSE IF ~acquired
               THEN Fail(HardwareError) /\ UNCHANGED <<has_bg, bg_count, now>>
               ELSE /\ has_bg' = TRUE
                    /\ bg_count' = bg_count + 1
                    /\ now' = Min(PulseTicks * o.r.n + Settle + lat,
                                  user_cfg.degradation_duration_s)
                    /\ pc' = "dg_loop"
                    /\ exc' = exc
     ELSE /\ pc' = "dg_loop"
          /\ now' = 0
          /\ UNCHANGED <<exc, has_bg, bg_count, current_slot, phys, pulses, last>>
  /\ UNCHANGED <<slot_count, slot_mapping, broken>>
  /\ UNCHANGED <<experiment_type, user_cfg, opened, hooked, measurements,
                 persisted>>
  /\ UNCHANGED <<power, warned, procVars, ptVars>>

\* lines 151-171: the loop test, then the optical path and the reference
\* power of the cycle
DG_Reference ==
  /\ pc = "dg_loop"
  /\ now < user_cfg.degradation_duration_s
  /\ i < MaxCycles
  /\ IF user_cfg.flywheel_mode # "skip"
     THEN IF user_cfg.normalization = "mirror"
          THEN \E o \in NamedOutcomes("mirror"), read \in BOOLEAN,
                  acquired \in BOOLEAN, reading \in 0..MaxPower :
                 /\ GoNamed("mirror", o)
                 /\ IF o.r.status # "ok"
                    THEN Fail(o.r.status)
                         /\ UNCHANGED <<has_bg, bg_count, now, power>>
                    ELSE IF ~read
                    THEN Fail(HardwareError)
                         /\ UNCHANGED <<has_bg, bg_count, now, power>>
                    ELSE IF user_cfg.background_correction /\ user_cfg.repeated_bg
                    THEN IF ~acquired
                         THEN Fail(HardwareError)
                              /\ UNCHANGED <<has_bg, bg_count, now, power>>
                         ELSE /\ has_bg' = TRUE
                              /\ bg_count' = bg_count + 1
                              /\ power' = reading
                              /\ now' = Later(PulseTicks * o.r.n + Settle)
                              /\ pc' = "dg_to_empty"
                              /\ exc' = exc
                    ELSE /\ pc' = "dg_to_empty"
                         /\ power' = reading
                         /\ now' = Later(PulseTicks * o.r.n + Settle)
                         /\ UNCHANGED <<exc, has_bg, bg_count>>
          ELSE IF user_cfg.normalization = "beam_splitter"
          THEN \E o \in NamedOutcomes("beam_splitter"), read \in BOOLEAN,
                  reading \in 0..MaxPower :
                 /\ GoNamed("beam_splitter", o)
                 /\ IF o.r.status # "ok"
                    THEN Fail(o.r.status) /\ UNCHANGED <<now, power>>
                    ELSE IF ~read
                    THEN Fail(HardwareError) /\ UNCHANGED <<now, power>>
                    ELSE /\ pc' = "dg_capture"
                         /\ exc' = exc
                         /\ power' = reading
                         /\ now' = Later(PulseTicks * o.r.n)
                 /\ UNCHANGED <<has_bg, bg_count>>
          ELSE \E o \in NamedOutcomes("empty") :
                 /\ GoNamed("empty", o)
                 /\ IF o.r.status # "ok"
                    THEN Fail(o.r.status) /\ UNCHANGED <<now, power>>
                    ELSE /\ pc' = "dg_capture"
                         /\ exc' = exc
                         /\ power' = 1
                         /\ now' = Later(PulseTicks * o.r.n)
                 /\ UNCHANGED <<has_bg, bg_count>>
     ELSE /\ pc' = "dg_capture"
          /\ power' = 1
          /\ UNCHANGED <<exc, has_bg, bg_count, current_slot, phys, pulses,
                         last, now>>
  /\ UNCHANGED <<slot_count, slot_mapping, broken>>
  /\ UNCHANGED <<experiment_type, user_cfg, opened, hooked, measurements, i,
                 persisted>>
  /\ UNCHANGED <<warned, procVars, ptVars>>

\* variant: the wheel stays at the mirror slot for the sample capture
DG_ToEmpty_Stay ==
  /\ pc = "dg_to_empty"
  /\ pc' = "dg_capture"
  /\ UNCHANGED <<experiment_type, user_cfg, opened, hooked, exc, measurements,
                 i, has_bg, bg_count, persisted>>
  /\ UNCHANGED wheelVars
  /\ UNCHANGED <<dgVars, procVars, ptVars>>

\* line 163: back to the empty slot after the mirror reference
DG_ToEmpty ==
  /\ pc = "dg_to_empty"
  /\ \E o \in NamedOutcomes("empty") :
       /\ GoNamed("empty", o)
       /\ IF o.r.status = "ok"
          THEN pc' = "dg_capture" /\ exc' = exc
               /\ now' = Later(PulseTicks * o.r.n)
          ELSE Fail(o.r.status) /\ now' = now
  /\ UNCHANGED <<slot_count, slot_mapping, broken>>
  /\ UNCHANGED <<experiment_type, user_cfg, opened, hooked, measurements, i,
                 has_bg, bg_count, persisted>>
  /\ UNCHANGED <<power, warned, procVars, ptVars>>

\* lines 173-181: settle, acquire (lat: time taken by the acquisition),
\* normalize, subtract `background` and clip
DG_Capture ==
  /\ pc = "dg_capture"
  /\ \E acquired \in BOOLEAN, lat \in 0..MaxLatency :
       IF ~acquired THEN Fail(HardwareError) /\ now' = now
       ELSE IF user_cfg.background_correction /\ ~has_bg
       THEN Fail("NameError") /\ now' = now
       ELSE pc' = "dg_persist" /\ exc' = exc /\ now' = Later(Settle + lat)
  /\ UNCHANGED <<experiment_type, user_cfg, opened, hooked, measurements, i,
                 has_bg, bg_count, persisted>>
  /\ UNCHANGED wheelVars
  /\ UNCHANGED <<power, warned, procVars, ptVars>>

\* variant: the sleep for the sampling interval is missing
DG_Persist_NoSleep ==
  /\ pc = "dg_persist"
  /\ persisted' = persisted + 1
  /\ i' = i + 1
  /\ pc' = "dg_loop"
  /\ UNCHANGED <<experiment_type, user_cfg, opened, hooked, exc, measurements,
                 has_bg, bg_count>>
  /\ UNCHANGED wheelVars
  /\ UNCHANGED <<dgVars, procVars, ptVars>>

\* lines 183-206: live plot, save the spectrum, sleep for the interval
DG_Persist ==
  /\ pc = "dg_persist"
  /\ persisted' = persisted + 1
  /\ i' = i + 1
  /\ now' = Later(user_cfg.sampling_interval_s)
  /\ pc' = "dg_loop"
  /\ UNCHANGED <<experiment_type, user_cfg, opened, hooked, exc, measurements,
                 has_bg, bg_count>>
  /\ UNCHANGED wheelVars
  /\ UNCHANGED <<power, warned, procVars, ptVars>>

\* line 151: the elapsed time has reached the duration
DG_Exit ==
  /\ pc = "dg_loop"
  /\ ~(now < user_cfg.degradation_duration_s)
  /\ pc' = "dg_summary"
  /\ UNCHANGED <<experiment_type, user_cfg, opened, hooked, exc, measurements,
                 i, has_bg, bg_count, persisted>>
  /\ UNCHANGED wheelVars
  /\ UNCHANGED <<dgVars, procVars, ptVars>>

\* variant: the try/except around the summary plots is missing
DG_Summary_Uncaught ==
  /\ pc = "dg_summary"
  /\ \E plotted \in BOOLEAN :
       IF plotted THEN pc' = "sd_spec" /\ exc' = exc /\ warned' = FALSE
       ELSE Fail("Exception") /\ warned' = TRUE
  /\ UNCHANGED <<experiment_type, user_cfg, opened, hooked, measurements,
                 i, has_bg, bg_count, persisted>>
  /\ UNCHANGED wheelVars
  /\ UNCHANGED <<now, power, procVars, ptVars>>

\* lines 208-222: plot_spectra_from_csv inside try/except Exception: a
\* failure prints the warning; the mode returns
DG_Summary ==
  /\ pc = "dg_summary"
  /\ \E plotted \in BOOLEAN : warned' = ~plotted
  /\ pc' = "sd_spec"
  /\ UNCHANGED <<experiment_type, user_cfg, opened, hooked, exc, measurements,
                 i, has_bg, bg_count, persisted>>
  /\ UNCHANGED wheelVars
  /\ UNCHANGED <<now, power, procVars, ptVars>>

(* ------------------------- run_pre_tuning ------------------------------ *)
\* line 228: self.fw.go_to_slot(self.slots["empty"])
PT_Start ==
  /\ pc = "pt_start"
  /\ \E o \in NamedOutcomes("empty") :
       /\ GoNamed("empty", o)
       /\ IF o.r.status = "ok" THEN pc' = "pt_stream" /\ exc' = exc
          ELSE Fail(o.r.status)
  /\ UNCHANGED <<slot_count, slot_mapping, broken>>
  /\ UNCHANGED <<experiment_type, user_cfg, opened, hooked, measurements, i,
                 has_bg, bg_count, persisted>>
  /\ UNCHANGED <<dgVars, procVars, ptVars>>

\* lines 230-235: q_data = queue.Queue(), a queue without a capacity, and
\* spec.start_stream (spectrometer.py lines 84-97): clear the stop event,
\* start the capture thread
PT_StartStream ==
  /\ pc = "pt_stream"
  /\ q_data' = <<>>
  /\ IF streaming
     THEN UNCHANGED <<stop_event, streaming, cap_pc>>
     ELSE stop_event' = FALSE /\ streaming' = TRUE /\ cap_pc' = "test"
  /\ pc' = "pt_setup"
  /\ UNCHANGED in_pc
  /\ UNCHANGED <<experiment_type, user_cfg, opened, hooked, exc, measurements,
                 i, has_bg, bg_count, persisted>>
  /\ UNCHANGED wheelVars
  /\ UNCHANGED <<dgVars, procVars>>

\* lines 237-261: set up the figure and start the daemon input thread; a
\* KeyboardInterrupt here is outside the try block of line 263 and leaves
\* the mode with the capture thread running
PT_StartInput ==
  /\ pc = "pt_setup"
  /\ \/ /\ in_pc' = "input"
        /\ pc' = "pt_get"
        /\ exc' = exc
     \/ /\ Fail("KeyboardInterrupt")
        /\ in_pc' = in_pc
  /\ UNCHANGED <<q_data, stop_event, streaming, cap_pc>>
  /\ UNCHANGED <<experiment_type, user_cfg, opened, hooked, measurements,
                 i, has_bg, bg_count, persisted>>
  /\ UNCHANGED wheelVars
  /\ UNCHANGED <<dgVars, procVars>>

\* lines 265-267: item = q_data.get() blocks while the queue is empty; the
\* exit token ends the loop
PT_Get ==
  /\ pc = "pt_get"
  /\ Len(q_data) > 0
  /\ q_data' = Tail(q_data)
  /\ pc' = IF Head(q_data) = "exit" THEN "pt_finally" ELSE "pt_draw"
  /\ UNCHANGED <<stop_event, streaming, cap_pc, in_pc>>
  /\ UNCHANGED <<experiment_type, user_cfg, opened, hooked, exc, measurements,
                 i, has_bg, bg_count, persisted>>
  /\ UNCHANGED wheelVars
  /\ UNCHANGED <<dgVars, procVars>>

\* lines 268-274: draw the spectrum and sleep 0.1 s; an error of the drawing
\* code leaves the loop through the finally clause
PT_Draw ==
  /\ pc = "pt_draw"
  /\ \/ pc' = "pt_get" /\ exc' = exc
     \/ pc' = "pt_finally" /\ exc' = "Exception"
  /\ UNCHANGED <<experiment_type, user_cfg, opened, hooked, measurements,
                 i, has_bg, bg_count, persisted>>
  /\ UNCHANGED wheelVars
  /\ UNCHANGED <<dgVars, procVars, ptVars>>

\* lines 275-276: a KeyboardInterrupt inside the try block is caught
PT_Interrupt ==
  /\ pc \in {"pt_get", "pt_draw"}
  /\ pc' = "pt_finally"
  /\ UNCHANGED <<experiment_type, user_cfg, opened, hooked, exc, measurements,
                 i, has_bg, bg_count, persisted>>
  /\ UNCHANGED wheelVars
  /\ UNCHANGED <<dgVars, procVars, ptVars>>

\* line 278, stop_stream line 100: self._stop_event.set()
PT_SetStop ==
  /\ pc = "pt_finally"
  /\ stop_event' = TRUE
  /\ pc' = "pt_join"
  /\ UNCHANGED <<q_data, streaming, cap_pc, in_pc>>
  /\ UNCHANGED <<experiment_type, user_cfg, opened, hooked, exc, measurements,
                 i, has_bg, bg_count, persisted>>
  /\ UNCHANGED wheelVars
  /\ UNCHANGED <<dgVars, procVars>>

\* stop_stream lines 101-103 and lines 279-281: scan_thread.join() returns
\* when the capture thread has ended; the mode returns, or the pending
\* error of the display loop propagates
PT_Join ==
  /\ pc = "pt_join"
  /\ cap_pc = "done"
  /\ streaming' = FALSE
  /\ pc' = "sd_spec"
  /\ UNCHANGED <<q_data, stop_event, cap_pc, in_pc>>
  /\ UNCHANGED <<experiment_type, user_cfg, opened, hooked, exc, measurements,
                 i, has_bg, bg_count, persisted>>
  /\ UNCHANGED wheelVars
  /\ UNCHANGED <<dgVars, procVars>>

\* variant: the capture loop never looks at the stop event
Cap_Test_IgnoresStop ==
  /\ cap_pc = "test"
  /\ cap_pc' = "acq"
  /\ UNCHANGED <<q_data, stop_event, streaming, in_pc>>
  /\ UNCHANGED runVars
  /\ UNCHANGED wheelVars
  /\ UNCHANGED <<dgVars, procVars>>

\* the capture thread, spectrometer.py line 89: while not
\* self._stop_event.is_set(); the call of get_spectrum begins
Cap_Test ==
  /\ cap_pc = "test"
  /\ cap_pc' = IF stop_event THEN "done" ELSE "acq"
  /\ UNCHANGED <<q_data, stop_event, streaming, in_pc>>
  /\ UNCHANGED runVars
  /\ UNCHANGED wheelVars
  /\ UNCHANGED <<dgVars, procVars>>

\* spectrometer.py lines 90-91: get_spectrum returns and the callback puts
\* the spectrum into the queue; put never blocks, and spectra beyond
\* MaxQueue waiting items are not told apart; a failing acquisition ends
\* the thread
Cap_Put ==
  /\ cap_pc = "acq"
  /\ \/ /\ q_data' = IF Len(q_data) < MaxQueue
                     THEN Append(q_data, "spectrum") ELSE q_data
        /\ cap_pc' = "sleep"
     \/ /\ cap_pc' = "done"
        /\ q_data' = q_data
  /\ UNCHANGED <<stop_event, streaming, in_pc>>
  /\ UNCHANGED runVars
  /\ UNCHANGED wheelVars
  /\ UNCHANGED <<dgVars, procVars>>

\* spectrometer.py line 92: time.sleep(delay)
Cap_Sleep ==
  /\ cap_pc = "sleep"
  /\ cap_pc' = "test"
  /\ UNCHANGED <<q_data, stop_event, streaming, in_pc>>
  /\ UNCHANGED runVars
  /\ UNCHANGED wheelVars
  /\ UNCHANGED <<dgVars, procVars>>

\* the process has exited: the main thread has ended and no non-daemon
\* thread is left
Exited == pc = "ended" /\ cap_pc \in {"none", "done"}

\* the input thread, lines 248-254: "exit" puts the token and ends the
\* thread; a number starts the call of set_integration_time (an invalid
\* line changes nothing)
In_Read ==
  /\ in_pc = "input"
  /\ ~Exited
  /\ \/ /\ q_data' = Append(q_data, "exit")
        /\ in_pc' = "done"
     \/ /\ in_pc' = "set"
        /\ q_data' = q_data
  /\ UNCHANGED <<stop_event, streaming, cap_pc>>
  /\ UNCHANGED runVars
  /\ UNCHANGED wheelVars
  /\ UNCHANGED <<dgVars, procVars>>

\* lines 254-255: set_integration_time returns
In_SetDone ==
  /\ in_pc = "set"
  /\ ~Exited
  /\ in_pc' = "input"
  /\ UNCHANGED <<q_data, stop_event, streaming, cap_pc>>
  /\ UNCHANGED runVars
  /\ UNCHANGED wheelVars
  /\ UNCHANGED <<dgVars, procVars>>

(* ----------------------- PLExperiment.shutdown ------------------------- *)
\* one shutdown hook: it is invoked; if it raises, the exception leaves
\* shutdown() and main()
Hook(adapter, nextpc) ==
  /\ hooked' = hooked \cup {adapter}
  /\ \/ pc' = nextpc /\ exc' = exc
     \/ Crash(HardwareError)

\* self.spec.shutdown()
Shutdown_Spectrometer ==
  /\ pc = "sd_spec"
  /\ Hook("spec", "sd_pm")
  /\ UNCHANGED <<experiment_type, user_cfg, opened, measurements, i, has_bg,
                 bg_count, persisted>>
  /\ UNCHANGED wheelVars
  /\ UNCHANGED <<dgVars, procVars, ptVars>>

\* self.pm.close()
Shutdown_PowerMeter ==
  /\ pc = "sd_pm"
  /\ Hook("pm", "sd_fw")
  /\ UNCHANGED <<experiment_type, user_cfg, opened, measurements, i, has_bg,
                 bg_count, persisted>>
  /\ UNCHANGED wheelVars
  /\ UNCHANGED <<dgVars, procVars, ptVars>>

\* self.fw.close()
Shutdown_Flywheel ==
  /\ pc = "sd_fw"
  /\ Hook("fw", "ended")
  /\ UNCHANGED <<experiment_type, user_cfg, opened, measurements, i, has_bg,
                 bg_count, persisted>>
  /\ UNCHANGED wheelVars
  /\ UNCHANGED <<dgVars, procVars, ptVars>>

Next ==
  \/ Exp_LoadConfig \/ Exp_OpenSpectrometer \/ Exp_OpenPowerMeter
  \/ Exp_OpenFlywheel \/ Exp_ConfigureSpectrometer
  \/ AC_Scan \/ AC_Select \/ AC_Reset \/ AC_Return \/ Exp_ReadSettings
  \/ Main_Dispatch
  \/ SS_BgOnce \/ SS_Confirm \/ SS_BgEach \/ SS_MoveEmpty \/ SS_Capture
  \/ SS_Persist \/ SS_Overlay
  \/ DG_Start \/ DG_Reference \/ DG_ToEmpty \/ DG_Capture \/ DG_Persist
  \/ DG_Exit \/ DG_Summary
  \/ PT_Start \/ PT_StartStream \/ PT_StartInput \/ PT_Get \/ PT_Draw
  \/ PT_Interrupt \/ PT_SetStop \/ PT_Join
  \/ Cap_Test \/ Cap_Put \/ Cap_Sleep \/ In_Read \/ In_SetDone
  \/ Shutdown_Spectrometer \/ Shutdown_PowerMeter \/ Shutdown_Flywheel

Spec == Init /\ [][Next]_vars

(* ------------------ a pre-tuning run, fairly scheduled ----------------- *)
\* main() with experiment_type "pre_tuning"
InitPT == Init /\ experiment_type = "pre_tuning"

NextPT ==
  \/ Exp_LoadConfig \/ Exp_OpenSpectrometer \/ Exp_OpenPowerMeter
  \/ Exp_OpenFlywheel \/ Exp_ConfigureSpectrometer
  \/ AC_Scan \/ AC_Select \/ AC_Reset \/ AC_Return \/ Exp_ReadSettings
  \/ Main_Dispatch
  \/ PT_Start \/ PT_StartStream \/ PT_StartInput \/ PT_Get \/ PT_Draw
  \/ PT_Interrupt \/ PT_SetStop \/ PT_Join
  \/ Cap_Test \/ Cap_Put \/ Cap_Sleep \/ In_Read \/ In_SetDone
  \/ Shutdown_Spectrometer \/ Shutdown_PowerMeter \/ Shutdown_Flywheel

\* the main thread and the capture thread are scheduled and their calls
\* return: a step of the display loop, of stop_stream or of the capture
\* loop that stays possible is eventually taken. Nothing is assumed about
\* the operator (the input thread, Ctrl-C).
FairPT ==
  /\ WF_vars(PT_Get) /\ WF_vars(PT_Draw)
  /\ WF_vars(PT_SetStop) /\ WF_vars(PT_Join)
  /\ WF_vars(Cap_Test) /\ WF_vars(Cap_Put) /\ WF_vars(Cap_Sleep)

SpecPT == InitPT /\ [][NextPT]_vars /\ FairPT

(* ------------- per-cycle processing of run_degradation_study ----------- *)
\* One pixel of the intensity array stands for the array: the operations of
\* lines 176-181 are element-wise. Intensities are integers; the raw levels
\* are multiples of RawUnit so that the division by the reference power is
\* exact, as the floating-point division of line 177 is for these values.
RECURSIVE Product(_)
Product(n) == IF n <= 1 THEN 1 ELSE n * Product(n - 1)

RawUnit == Product(MaxRefPower)

RawLevels == {k * RawUnit : k \in 0..MaxRaw}

Normalizations == {"none", "mirror", "beam_splitter"}

\* lines 176-177: if normalization != "none" and power > 0: inten / power
Normalize(x, p, normalization) ==
  IF normalization # "none" /\ p > 0 THEN x \div p ELSE x

\* np.clip(x, 0, None)
Clip0(x) == IF x < 0 THEN 0 ELSE x

\* lines 179-181: if background_correction: clip(inten - background, 0)
SubtractBackground(x, bg, correction) ==
  IF correction THEN Clip0(x - bg) ELSE x

\* variant: the background is subtracted before the normalization
Process_SubtractFirst(x, p, bg, cfg) ==
  Normalize(SubtractBackground(x, bg, cfg.background_correction),
            p, cfg.normalization)

\* lines 176-181 in statement order
Process(x, p, bg, cfg) ==
  SubtractBackground(Normalize(x, p, cfg.normalization),
                     bg, cfg.background_correction)

\* a cycle about to acquire (line 174): the reference power of the cycle,
\* the bound background and the configuration are any of the explored ones
InitProc ==
  /\ slot_count = 1
  /\ slot_mapping = NoMapping
  /\ current_slot = 1
  /\ phys = 1
  /\ broken = FALSE
  /\ pulses = 0
  /\ last = NoCall
  /\ pc = "proc_acquire"
  /\ experiment_type = "degradation"
  /\ \E normalization \in Normalizations, correction \in BOOLEAN :
       user_cfg = [NoConfig EXCEPT !.normalization = normalization,
                                   !.background_correction = correction,
                                   !.flywheel_mode = "auto"]
  /\ opened = Adapters
  /\ hooked = {}
  /\ exc = "none"
  /\ measurements = <<>>
  /\ i = 0
  /\ has_bg = TRUE
  /\ bg_count = 1
  /\ persisted = 0
  /\ now = 0
  /\ power \in 0..MaxRefPower
  /\ warned = FALSE
  /\ raw = 0
  /\ inten = 0
  /\ background \in 0..MaxBackground
  /\ q_data = <<>>
  /\ stop_event = FALSE
  /\ streaming = FALSE
  /\ cap_pc = "none"
  /\ in_pc = "none"
  /\ mask_range = NoMask
  /\ scans = 0
  /\ spectra = <<>>
  /\ wl = {}

\* line 174: the acquisition returns the raw intensity
Proc_Acquire ==
  /\ pc = "proc_acquire"
  /\ \E level \in RawLevels : raw' = level /\ inten' = level
  /\ pc' = "proc_process"
  /\ UNCHANGED <<background, acqVars>>
  /\ UNCHANGED wheelVars
  /\ UNCHANGED <<experiment_type, user_cfg, opened, hooked, exc, measurements,
                 i, has_bg, bg_count, persisted>>
  /\ UNCHANGED <<dgVars, ptVars>>

\* lines 176-181: normalization and background correction of the cycle
Proc_Process ==
  /\ pc = "proc_process"
  /\ inten' = Process(inten, power, background, user_cfg)
  /\ pc' = "proc_done"
  /\ UNCHANGED <<raw, background, acqVars>>
  /\ UNCHANGED wheelVars
  /\ UNCHANGED <<experiment_type, user_cfg, opened, hooked, exc, measurements,
                 i, has_bg, bg_count, persisted>>
  /\ UNCHANGED <<dgVars, ptVars>>

NextProc == Proc_Acquire \/ Proc_Process

SpecProc == InitProc /\ [][NextProc]_vars

(* -------- one sample capture: averaging and the wavelength mask -------- *)
\* the wavelengths of the pixels, returned by every get_raw_spectrum call
Wavelengths == 1..MaxWl

\* mask_range_nm of the user configuration: absent (or null), or a pair of
\* bounds; a lower bound of 0 is among them
MaskRanges ==
  {<<>>} \cup {<<lo, hi>> : lo \in 0..MaxWl, hi \in 1..MaxWl}

\* the levels a raw acquisition returns (one pixel), multiples of AvgUnit
\* so that the mean over average_count acquisitions is exact
AvgUnit == Product(MaxAvg)

AvgLevels == {0, AvgUnit}

RECURSIVE Sum(_)
Sum(seq) == IF seq = <<>> THEN 0 ELSE Head(seq) + Sum(Tail(seq))

\* Python truth value of a mask bound: None and 0 are false
Truthy(x) == x # NoBound /\ x # 0

\* get_spectrum lines 74-76: the mask is applied when both bounds are
\* truthy
Mask(points, range) ==
  IF Truthy(range[1]) /\ Truthy(range[2])
  THEN {w \in points : range[1] <= w /\ w <= range[2]}
  ELSE points

\* a constructed experiment about to capture one sample (steady-state line
\* 83, degradation line 174) or one frame of the pre-tuning stream
InitAcq ==
  /\ slot_count = 1
  /\ slot_mapping = NoMapping
  /\ current_slot = 1
  /\ phys = 1
  /\ broken = FALSE
  /\ pulses = 0
  /\ last = NoCall
  /\ pc = "acq_mask"
  /\ experiment_type \in ExperimentTypes
  /\ \E averaging \in BOOLEAN, count \in 1..MaxAvg, range \in MaskRanges :
       user_cfg = [NoConfig EXCEPT !.enable_averaging = averaging,
                                   !.average_count = count,
                                   !.mask_range_nm = range]
  /\ opened = Adapters
  /\ hooked = {}
  /\ exc = "none"
  /\ measurements = <<>>
  /\ i = 0
  /\ has_bg = FALSE
  /\ bg_count = 0
  /\ persisted = 0
  /\ now = 0
  /\ power = 0
  /\ warned = FALSE
  /\ raw = 0
  /\ inten = 0
  /\ background = 0
  /\ q_data = <<>>
  /\ stop_event = FALSE
  /\ streaming = FALSE
  /\ cap_pc = "none"
  /\ in_pc = "none"
  /\ mask_range = NoMask
  /\ scans = 0
  /\ spectra = <<>>
  /\ wl = {}

\* experiment.py lines 39-40 and set_mask_range: a non-empty mask_range_nm
\* is handed to the spectrometer
Acq_SetMask ==
  /\ pc = "acq_mask"
  /\ mask_range' = IF user_cfg.mask_range_nm # <<>>
                   THEN user_cfg.mask_range_nm ELSE mask_range
  /\ pc' = IF experiment_type = "pre_tuning" THEN "acq_stream"
           ELSE "acq_capture"
  /\ UNCHANGED <<raw, inten, background, scans, spectra, wl>>
  /\ UNCHANGED wheelVars
  /\ UNCHANGED <<experiment_type, user_cfg, opened, hooked, exc, measurements,
                 i, has_bg, bg_count, persisted>>
  /\ UNCHANGED <<dgVars, ptVars>>

\* average_spectrum line 53: one get_raw_spectrum call of the list
\* comprehension over range(self.avg_count)
Acq_Raw ==
  /\ pc = "acq_capture"
  /\ user_cfg.enable_averaging
  /\ Len(spectra) < user_cfg.average_count
  /\ \E level \in AvgLevels : spectra' = Append(spectra, level)
  /\ scans' = scans + 1
  /\ UNCHANGED <<raw, inten, background, mask_range, wl>>
  /\ UNCHANGED runVars
  /\ UNCHANGED wheelVars
  /\ UNCHANGED <<dgVars, ptVars>>

\* average_spectrum lines 54-56: the mean of the list, then one more
\* get_raw_spectrum call for the wavelengths
Acq_Mean ==
  /\ pc = "acq_capture"
  /\ user_cfg.enable_averaging
  /\ Len(spectra) = user_cfg.average_count
  /\ inten' = Sum(spectra) \div user_cfg.average_count
  /\ raw' = inten'
  /\ scans' = scans + 1
  /\ wl' = Wavelengths
  /\ pc' = "acq_persist"
  /\ UNCHANGED <<background, mask_range, spectra>>
  /\ UNCHANGED wheelVars
  /\ UNCHANGED <<experiment_type, user_cfg, opened, hooked, exc, measurements,
                 i, has_bg, bg_count, persisted>>
  /\ UNCHANGED <<dgVars, ptVars>>

\* lines 83 and 174 without averaging: one get_raw_spectrum call
Acq_Single ==
  /\ pc = "acq_capture"
  /\ ~user_cfg.enable_averaging
  /\ \E level \in AvgLevels : inten' = level /\ raw' = level
  /\ scans' = scans + 1
  /\ wl' = Wavelengths
  /\ pc' = "acq_persist"
  /\ UNCHANGED <<background, mask_range, spectra>>
  /\ UNCHANGED wheelVars
  /\ UNCHANGED <<experiment_type, user_cfg, opened, hooked, exc, measurements,
                 i, has_bg, bg_count, persisted>>
  /\ UNCHANGED <<dgVars, ptVars>>

\* save_csv_spectrum(wl, inten, csv_path), lines 92 and 202
Acq_Persist ==
  /\ pc = "acq_persist"
  /\ persisted' = persisted + 1
  /\ pc' = "acq_done"
  /\ UNCHANGED <<experiment_type, user_cfg, opened, hooked, exc, measurements,
                 i, has_bg, bg_count>>
  /\ UNCHANGED wheelVars
  /\ UNCHANGED <<dgVars, procVars, ptVars>>

\* the pre-tuning stream, get_spectrum lines 71-76: one get_raw_spectrum
\* call, then the mask
Acq_Stream ==
  /\ pc = "acq_stream"
  /\ \E level \in AvgLevels : inten' = level /\ raw' = level
  /\ scans' = scans + 1
  /\ wl' = Mask(Wavelengths, mask_range)
  /\ pc' = "acq_done"
  /\ UNCHANGED <<background, mask_range, spectra>>
  /\ UNCHANGED wheelVars
  /\ UNCHANGED <<experiment_type, user_cfg, opened, hooked, exc, measurements,
                 i, has_bg, bg_count, persisted>>
  /\ UNCHANGED <<dgVars, ptVars>>

NextAcq ==
  \/ Acq_SetMask \/ Acq_Raw \/ Acq_Mean \/ Acq_Single \/ Acq_Persist
  \/ Acq_Stream

SpecAcq == InitAcq /\ [][NextAcq]_vars

TypeOK ==
  /\ slot_count \in 0..(MaxSlots + 1)
  /\ current_slot \in 0..slot_count
  /\ phys \in 0..slot_count
  /\ opened \subseteq Adapters
  /\ hooked \subseteq Adapters
  /\ broken \in BOOLEAN

\* (t - c) mod slot_count, the cyclic distance from c to t
CyclicDist(c, t, N) == (t - c + N) % N

\* C1: a go_to_slot call with a valid target different from the tracked slot
\* (working pulses) succeeds, returns the target with current_slot equal to
\* it, and issued exactly (t - c) mod slot_count pulses, at most slot_count.
C1_GoToSlotReaches ==
  (last.op = "go_to_slot" /\ ~broken /\ last.arg \in 1..slot_count
     /\ last.arg # last.from)
  => /\ last.status = "ok"
     /\ last.ret = last.arg
     /\ current_slot = last.arg
     /\ last.n = CyclicDist(last.from, last.arg, slot_count)
     /\ last.n <= slot_count
     /\ last.n >= 1

C1_Witness ==
  /\ last.op = "go_to_slot" /\ ~broken /\ last.arg \in 1..slot_count
  /\ last.arg < last.from /\ last.n >= 2 /\ last.status = "ok"

\* C2: go_to_slot with the target equal to the tracked slot issues no pulse,
\* leaves current_slot (and the wheel) where it was and returns it.
C2_NoOpAtTarget ==
  (last.op = "go_to_slot" /\ last.arg = last.from)
  => /\ last.n = 0
     /\ last.status = "ok"
     /\ last.ret = last.from
     /\ current_slot = last.from
     /\ phys = last.physFrom

C2_Witness ==
  /\ last.op = "go_to_slot" /\ last.arg = last.from /\ last.n = 0
  /\ pulses > 0

\* C3: go_to_slot with a target outside [1, slot_count] raises the invalid
\* slot error, issues no pulse and leaves current_slot unchanged.
C3_InvalidTarget ==
  (last.op = "go_to_slot" /\ (last.arg < 1 \/ last.arg > slot_count))
  => /\ last.status = InvalidSlotError
     /\ last.n = 0
     /\ current_slot = last.from
     /\ phys = last.physFrom

C3_Witness ==
  /\ last.op = "go_to_slot" /\ last.arg > slot_count
  /\ last.status = InvalidSlotError /\ current_slot > 1

\* C4: with pulses that do not change the tracked position, go_to_slot with
\* a valid target different from the tracked slot makes exactly slot_count
\* pulse attempts and raises the unreachable slot error.
C4_BrokenTracker ==
  (last.op = "go_to_slot" /\ broken /\ last.arg \in 1..slot_count
     /\ last.arg # last.from)
  => /\ last.status = UnreachableSlotError
     /\ last.n = slot_count
     /\ current_slot = last.from

C4_Witness ==
  /\ last.op = "go_to_slot" /\ broken /\ last.status = UnreachableSlotError
  /\ last.n = slot_count /\ slot_count >= 2

\* C5: reset_slot(k) with k in [1, slot_count] sets current_slot to k with
\* no pulse and no physical motion; with k out of range it raises the
\* invalid slot error and leaves current_slot unchanged.
C5_ResetSlot ==
  (last.op = "reset_slot")
  => /\ last.n = 0
     /\ phys = last.physFrom
     /\ IF last.arg \in 1..slot_count
        THEN last.status = "ok" /\ current_slot = last.arg
        ELSE last.status = InvalidSlotError /\ current_slot = last.from

C5_Witness ==
  /\ last.op = "reset_slot" /\ last.status = "ok"
  /\ current_slot # last.from /\ current_slot # phys

\* C6: when auto-configuration has finished, slot_count readings were
\* taken, the wheel is physically at a position whose reading was the
\* maximum of them, and the tracked slot is 1.
C6_AutoConfigAtMaximum ==
  (pc = "ac_done")
  => /\ Len(measurements) = slot_count
     /\ measurements[1].slot = 1
     /\ current_slot = 1
     /\ \E k \in 1..Len(measurements) :
          /\ measurements[k].at = phys
          /\ \A j \in 1..Len(measurements) :
               measurements[j].power <= measurements[k].power

C6_Witness ==
  /\ pc = "ac_done" /\ slot_count = 3 /\ current_slot = 1
  /\ measurements[3].power > measurements[1].power
  /\ measurements[3].power > measurements[2].power
  /\ phys = measurements[3].at /\ phys # measurements[1].at

\* C7: once auto-configuration has run, a move to the slot named "mirror"
\* targets slot 1, and issues no pulse when the tracked slot is already 1.
C7_MirrorResolvesToSlot1 ==
  (user_cfg.auto_configure_flywheel /\ last.op = "go_to_slot"
     /\ last.name = "mirror")
  => /\ last.arg = 1
     /\ (last.from = 1 => last.n = 0)

\* C8: when the process has ended, the shutdown hook of every adapter whose
\* session was opened has been invoked.
C8_OpenedAdaptersAreShutDown ==
  (pc = "ended") => (opened \subseteq hooked)

\* C9: a shutdown that has started attempts all three hooks before the
\* process ends, also when one of the hooks fails.
C9_AllHooksAttempted ==
  (pc = "ended" /\ hooked # {}) => (hooked = Adapters)

\* C10: with an experiment type that is not recognized, no hardware session
\* is ever opened and no wheel pulse is ever issued.
C10_UnknownTypeFailsFast ==
  (experiment_type \notin ExperimentTypes) => (opened = {} /\ pulses = 0)

\* C11: in the pre-tuning mode the number of items waiting in the queue
\* between the capture thread and the display loop stays below a fixed
\* capacity under every interleaving: it never reaches the number of items
\* up to which the queue is explored.
C11_QueueWithinCapacity ==
  (experiment_type = "pre_tuning") => Len(q_data) < MaxQueue

\* C12: when run_pre_tuning has returned (no exception pending), by the
\* exit token or by a keyboard interrupt caught in the display loop,
\* neither the capture thread nor the input thread started by the mode is
\* still running.
C12_NoTaskAfterReturn ==
  (experiment_type = "pre_tuning" /\ pc = "sd_spec" /\ exc = "none")
  => /\ cap_pc \in {"none", "done"}
     /\ in_pc \in {"none", "done"}

\* C13: a spectrometer call of the input thread (set_integration_time) is
\* never in progress while an acquisition of the capture thread is.
C13_NoOverlappingHardwareCalls ==
  ~(cap_pc = "acq" /\ in_pc = "set")

\* C14 (as stated): a steady-state run with background mode "once" that
\* has finished its samples captured the background exactly once.
C14_BackgroundOnceAsStated ==
  (experiment_type = "steady_state" /\ user_cfg.background_mode = "once"
     /\ pc = "ss_overlay")
  => bg_count = 1

\* C14 (amended): in a steady-state run with background mode "once" the
\* background is never captured more than once; when the samples are done
\* it was captured exactly once if background correction is enabled and
\* never if it is disabled, whatever sample_count is.
C14_BackgroundOnce ==
  (experiment_type = "steady_state" /\ user_cfg.background_mode = "once")
  => /\ bg_count <= 1
     /\ (pc = "ss_overlay"
           => /\ persisted = user_cfg.sample_count
              /\ bg_count = IF user_cfg.background_correction THEN 1 ELSE 0)

C14_Witness ==
  /\ experiment_type = "steady_state" /\ user_cfg.background_mode = "once"
  /\ user_cfg.background_correction /\ user_cfg.sample_count >= 2
  /\ pc = "ss_overlay" /\ bg_count = 1 /\ persisted >= 2

\* C15: in a degradation run with flywheel_mode "skip" the mode makes no
\* go_to_slot call (every call of a mode names its slot) and issues no
\* pulse, whatever the other keys are, and the reference power of every
\* cycle is the constant 1.
C15_SkipNoWheelMotion ==
  (experiment_type = "degradation" /\ user_cfg.flywheel_mode = "skip")
  => /\ last.name = ""
     /\ (pc \in {"dg_capture", "dg_persist"} => power = 1)

\* the 2 s / 1 s / "skip" scenario, in half-seconds
C16_Scenario ==
  /\ experiment_type = "degradation"
  /\ user_cfg.degradation_duration_s = 4
  /\ user_cfg.sampling_interval_s = 2
  /\ user_cfg.flywheel_mode = "skip"

\* C16 (as stated): a degradation run with duration 2 s, sampling interval
\* 1 s and flywheel_mode "skip" that leaves its loop has executed exactly 2
\* cycles and persisted exactly 2 spectra.
C16_ExactlyTwoCycles ==
  (C16_Scenario /\ pc = "dg_summary") => (i = 2 /\ persisted = 2)

\* C16 (amended): in that scenario at most 2 cycles are executed and one
\* spectrum is persisted per cycle; a cycle starts only while the elapsed
\* time is below the duration, each completed cycle has taken at least the
\* settle delay plus the sampling interval, and the loop is left only when
\* the elapsed time has reached the duration. Without the single background
\* capture ahead of the loop at least one cycle is executed.
C16_AtMostTwoCycles ==
  (C16_Scenario /\ pc \in {"dg_loop", "dg_capture", "dg_persist", "dg_summary"})
  => /\ i <= 2 /\ persisted = i
     /\ (pc \in {"dg_capture", "dg_persist"}
           => i < 2 /\ i * (Settle + user_cfg.sampling_interval_s)
                         < user_cfg.degradation_duration_s)
     /\ (pc = "dg_loop"
           => now >= Min(i * (Settle + user_cfg.sampling_interval_s),
                         user_cfg.degradation_duration_s))
     /\ (pc = "dg_summary"
           => /\ now = user_cfg.degradation_duration_s
              /\ (~(user_cfg.background_correction /\ ~user_cfg.repeated_bg)
                    => i >= 1))

C16_Witness ==
  /\ C16_Scenario /\ pc = "dg_summary"
  /\ i = 2 /\ persisted = 2 /\ power = 1

\* C17: in a degradation cycle in which both the normalization (a mode
\* other than "none", positive reference power) and the background
\* correction apply, the processed intensity is the raw intensity divided
\* by the reference power, then reduced by the background and clipped at
\* zero; the background is never subtracted before the division.
C17_NormalizeThenSubtract ==
  (pc = "proc_done" /\ user_cfg.normalization # "none" /\ power > 0
     /\ user_cfg.background_correction)
  => \E normalized \in 0..(MaxRaw * RawUnit) :
       /\ normalized * power = raw
       /\ inten = (IF normalized - background < 0 THEN 0
                   ELSE normalized - background)

C17_Witness ==
  /\ pc = "proc_done" /\ user_cfg.normalization # "none" /\ power > 1
  /\ user_cfg.background_correction
  /\ background > 0 /\ raw > background /\ inten > 0
  /\ inten * power # raw - background

\* C18: when the batch summary of a degradation run fails, the failure is
\* caught: the mode returns without an exception, shutdown() starts, its
\* hooks all run unless one of them fails itself, and the spectra persisted
\* by the cycles stay persisted.
C18_SummaryFailureIsWarning ==
  warned
  => /\ experiment_type = "degradation"
     /\ pc \in {"sd_spec", "sd_pm", "sd_fw", "ended"}
     /\ persisted = i
     /\ (pc = "sd_spec" => exc = "none")
     /\ (pc = "ended" => "spec" \in hooked)
     /\ (pc = "ended" /\ exc = "none" => hooked = Adapters)

C18_Witness ==
  /\ warned /\ pc = "ended" /\ exc = "none"
  /\ hooked = Adapters /\ persisted >= 1

\* C19: from a state where the tracked slot equals the physical position,
\* a go_to_slot or step call whose pulses all turn the wheel leaves the
\* tracked slot equal to the physical position.
C19_TrackedEqualsPhysical ==
  [][(current_slot = phys /\ ~broken /\ last'.op \in {"go_to_slot", "step"})
       => current_slot' = phys']_vars

C19_Witness ==
  /\ ~broken /\ last.op = "step" /\ last.n >= 2
  /\ last.from = last.physFrom /\ current_slot = phys
  /\ current_slot < last.from

\* C20: after any sequence of calls, failing ones included, current_slot is
\* in [1, slot_count]; a single pulse at slot_count wraps to slot 1.
C20_SlotInRange ==
  /\ current_slot \in 1..slot_count
  /\ (last.op = "step" /\ last.n = 1 /\ ~broken /\ last.from = slot_count)
       => current_slot = 1

C20_Witness ==
  /\ last.op = "step" /\ last.n = 1 /\ ~broken /\ last.from = slot_count
  /\ slot_count >= 2 /\ current_slot = 1

\* C21: in a steady-state run every iteration goes through confirmation,
\* background capture (in the loop only with background mode "each", and
\* then with the tracked slot at the mirror slot), the move to "empty", the
\* sample capture with the tracked slot at "empty", and persistence, in
\* this order; iteration i persists the i-th spectrum, and the overlay is
\* reached only after iteration sample_count, with sample_count spectra
\* persisted.
C21_SteadyStateOrder ==
  [][(experiment_type = "steady_state")
       => /\ (pc' = "ss_confirm" /\ pc # pc')
               => /\ pc \in {"ss_start", "ss_persist"}
                  /\ i' = persisted' + 1 /\ i' <= user_cfg.sample_count
          /\ (pc' = "ss_bg_each" /\ pc # pc') => pc = "ss_confirm"
          /\ (pc \in {"ss_confirm", "ss_bg_each", "ss_move_empty",
                      "ss_capture", "ss_persist"}
                /\ bg_count' # bg_count)
               => /\ pc = "ss_bg_each"
                  /\ user_cfg.background_mode = "each"
                  /\ bg_count' = bg_count + 1
                  /\ last'.name = "mirror" /\ last'.status = "ok"
                  /\ current_slot' = slot_mapping.mirror
          /\ (pc' = "ss_move_empty" /\ pc # pc') => pc = "ss_bg_each"
          /\ (pc' = "ss_capture" /\ pc # pc')
               => /\ pc = "ss_move_empty"
                  /\ last'.name = "empty" /\ last'.status = "ok"
                  /\ current_slot' = slot_mapping.empty
          /\ (pc' = "ss_persist" /\ pc # pc')
               => /\ pc = "ss_capture"
                  /\ current_slot = slot_mapping.empty
          /\ (persisted' # persisted)
               => /\ pc = "ss_persist"
                  /\ persisted' = i
          /\ (pc' = "ss_overlay" /\ pc # pc')
               => /\ pc = "ss_persist"
                  /\ persisted' = user_cfg.sample_count
                  /\ i' = user_cfg.sample_count
          /\ (pc = "ss_overlay" /\ pc # pc')
               => persisted' = user_cfg.sample_count]_vars

C21_Witness ==
  /\ experiment_type = "steady_state" /\ pc = "ss_overlay"
  /\ user_cfg.background_correction /\ user_cfg.background_mode = "each"
  /\ user_cfg.sample_count = 2 /\ persisted = 2 /\ bg_count = 2
  /\ current_slot = slot_mapping.empty
  /\ slot_mapping.empty # slot_mapping.mirror

\* C22: in every cycle of a degradation run with wheel motion enabled and
\* normalization "mirror", the reference power is read after a successful
\* move to the mirror slot, with the tracked slot at the mirror slot, and
\* the sample of the cycle is captured afterwards, after a successful move
\* to "empty", with the tracked slot at the "empty" slot.
C22_MirrorThenEmpty ==
  [][(experiment_type = "degradation" /\ user_cfg.flywheel_mode # "skip"
        /\ user_cfg.normalization = "mirror")
       => /\ (pc = "dg_loop" /\ pc' \in {"dg_to_empty", "dg_capture"})
               => /\ pc' = "dg_to_empty"
                  /\ last'.name = "mirror" /\ last'.status = "ok"
                  /\ current_slot' = slot_mapping.mirror
          /\ (power' # power)
               => /\ pc = "dg_loop" /\ pc' = "dg_to_empty"
                  /\ current_slot' = slot_mapping.mirror
          /\ (pc' = "dg_capture" /\ pc # pc')
               => /\ pc = "dg_to_empty"
                  /\ last'.name = "empty" /\ last'.status = "ok"
                  /\ current_slot' = slot_mapping.empty
          /\ (pc = "dg_capture" /\ pc' = "dg_persist")
               => /\ current_slot = slot_mapping.empty
                  /\ current_slot' = slot_mapping.empty]_vars

C22_Witness ==
  /\ experiment_type = "degradation" /\ user_cfg.flywheel_mode # "skip"
  /\ user_cfg.normalization = "mirror"
  /\ pc = "dg_persist" /\ i = 1 /\ power = 1
  /\ slot_mapping.empty # slot_mapping.mirror
  /\ current_slot = slot_mapping.empty /\ last.name = "empty" /\ last.n >= 1

\* C23: the queue of the pre-tuning mode has one producer: every item
\* waiting in it is a spectrum put by the capture thread, no other thread
\* puts an item into it.
C23_SingleProducer ==
  \A k \in 1..Len(q_data) : q_data[k] = "spectrum"

\* C26: in steady-state and degradation runs, when the sample capture of a
\* run with background correction gets to subtract the background, a
\* background has been captured earlier in the run, for every combination
\* of the configuration keys.
C26_BackgroundBoundBeforeUse ==
  /\ (pc \in {"ss_persist", "dg_persist"} /\ user_cfg.background_correction)
       => has_bg
  /\ exc # "NameError"

\* C24: with averaging enabled, the sample capture of a steady-state or
\* degradation run has performed exactly average_count raw acquisitions on
\* the spectrometer when the averaged spectrum is there.
C24_AveragedCaptureScans ==
  (user_cfg.enable_averaging /\ pc \in {"acq_persist", "acq_done"}
     /\ experiment_type \in {"steady_state", "degradation"})
  => scans = user_cfg.average_count

\* C25: a spectrum captured and persisted by the steady-state or the
\* degradation mode holds exactly the wavelengths within [min, max] when
\* both bounds of mask_range_nm are configured (a lower bound of 0
\* included), and every wavelength when no mask is configured.
C25_PersistedWithinMask ==
  (pc = "acq_done" /\ persisted = 1
     /\ experiment_type \in {"steady_state", "degradation"})
  => wl = IF user_cfg.mask_range_nm # <<>>
          THEN {w \in Wavelengths : user_cfg.mask_range_nm[1] <= w
                                    /\ w <= user_cfg.mask_range_nm[2]}
          ELSE Wavelengths

\* C27: once the operator has entered the exit token (the input thread has
\* put it and ended), run_pre_tuning is eventually left with the capture
\* thread ended and joined, under fair scheduling of the main thread and
\* the capture thread.
C27_ExitEventuallyReturns ==
  (in_pc = "done")
    ~> (pc \in {"sd_spec", "sd_pm", "sd_fw", "ended"}
          /\ cap_pc = "done" /\ ~streaming)

C27_Witness ==
  /\ in_pc = "done" /\ pc = "sd_spec" /\ exc = "none"
  /\ stop_event /\ cap_pc = "done" /\ ~streaming
  /\ Len(q_data) >= 1

====
